---- MODULE Spec2Model ----
(***************************************************************************)
(* A model of bayesflare/data/data.py: the Lightcurve class.               *)
(*                                                                         *)
(* Python object model.  Lightcurve attaches the defaults of its fields at *)
(* class scope (data.py 98-119).  Reading self.f finds the instance's own  *)
(* attribute when one was assigned and the class attribute otherwise;      *)
(* assigning self.f always creates or rebinds an instance attribute.       *)
(* Arrays are objects on a heap: an attribute holds a reference, and an    *)
(* in-place write (z[nans] = ...) is seen through every reference to the   *)
(* same object.                                                            *)
(*                                                                         *)
(* Numbers.  Flux values are floats in the program; here they are          *)
(* fixed-point integers or NaN.  A division (the mean of the two middle    *)
(* values of a median, the slope of an interpolation) rounds down, in the  *)
(* way the program's floats round to their precision.                      *)
(***************************************************************************)
EXTENDS Integers, Sequences, FiniteSets, TLC

VARIABLES
    klass,      \* the attributes attached at class scope (Lightcurve.__dict__)
    inst,       \* inst[i]: the instance attributes of Lightcurve object i
    heap,       \* heap[r]: the array object behind reference r
    call,       \* the last method call: who, what, with what, how it ended
    log,        \* the pipeline stages run so far, in order, tagged by call
    ingested,   \* ingested[i]: the segments appended to object i, in order
    hist,       \* every call made so far: what, and how it ended
    ncalls      \* number of method calls made so far

vars == <<klass, inst, heap, call, log, ingested, hist, ncalls>>

(***************************************************************************)
(* Bounds of the model.                                                    *)
(***************************************************************************)
MaxCalls == 2       \* method calls in one behaviour
MaxArrLen == 3      \* samples of a preset buffer (SpecArrays)

(***************************************************************************)
(* Floating point values: a number or NaN.  A sample of the flux buffer    *)
(* also carries where it came from (segment seg of ingested[i], sample idx *)
(* of it) and how many fitted baselines were subtracted from it (nfit);    *)
(* arithmetic keeps these fields.                                          *)
(***************************************************************************)
NaN == [nan |-> TRUE, x |-> 0]
Num(n) == [nan |-> FALSE, x |-> n]
Val(e) == [nan |-> e.nan, x |-> e.x]

Sample(v, s, j) == [nan |-> v.nan, x |-> v.x, seg |-> s, idx |-> j, nfit |-> 0]

\* e - b for array element e and scalar b (NaN propagates)
Sub(e, b) ==
    IF e.nan \/ b.nan THEN [e EXCEPT !.nan = TRUE, !.x = 0]
    ELSE [e EXCEPT !.x = @ - b.x]

Indices(s) == 1..Len(s)

\* the k-th smallest of the numbers of s (1-based)
Kth(s, k) ==
    CHOOSE v \in {s[j].x : j \in Indices(s)} :
        /\ Cardinality({j \in Indices(s) : s[j].x < v}) < k
        /\ Cardinality({j \in Indices(s) : s[j].x <= v}) >= k

\* np.median: NaN for an empty array or one holding a NaN, else the middle
\* value, or the mean of the two middle values
np_median(s) ==
    IF Len(s) = 0 \/ \E j \in Indices(s) : s[j].nan THEN NaN
    ELSE IF Len(s) % 2 = 1 THEN Num(Kth(s, (Len(s) + 1) \div 2))
    ELSE Num((Kth(s, Len(s) \div 2) + Kth(s, Len(s) \div 2 + 1)) \div 2)

\* np.append(a, b): a new array, a's elements then b's
np_append_swapped(a, b) == b \o a

np_append(a, b) == a \o b

\* z.nonzero()[0]: the (0-based) positions of the True entries, increasing
nonzero(z) == SelectSeq([k \in Indices(z) |-> k - 1], LAMBDA j : z[j + 1])

\* np.diff
np_diff(s) == [k \in 1..(IF Len(s) = 0 THEN 0 ELSE Len(s) - 1) |-> s[k + 1] - s[k]]

\* Lightcurve.gap_checker, as written: y < maxgap+1 is an array of booleans
\* as long as y, and it is the lengths that are compared
gap_checker(d, maxgap) ==
    LET z == [k \in Indices(d) |-> ~ d[k].nan]
        y == np_diff(nonzero(z))
        less == [k \in Indices(y) |-> y[k] < maxgap + 1]
    IN  IF Len(less) # Len(y) THEN TRUE ELSE FALSE

\* np.interp(x, xp, fp) at one point x: xp increasing, clamped to fp's ends
\* outside xp's range, linear between the two neighbours inside it
np_interp_noclamp(x, xp, fp) ==
    IF x < xp[1] \/ x > xp[Len(xp)] THEN NaN
    ELSE LET j == CHOOSE k \in Indices(xp) :
                     xp[k] <= x /\ (k = Len(xp) \/ x < xp[k + 1])
         IN  IF xp[j] = x THEN fp[j]
             ELSE Num(fp[j].x + ((fp[j + 1].x - fp[j].x) * (x - xp[j]))
                                    \div (xp[j + 1] - xp[j]))

np_interp(x, xp, fp) ==
    IF x < xp[1] THEN Val(fp[1])
    ELSE IF x > xp[Len(xp)] THEN Val(fp[Len(xp)])
    ELSE LET j == CHOOSE k \in Indices(xp) :
                     xp[k] <= x /\ (k = Len(xp) \/ x < xp[k + 1])
         IN  IF xp[j] = x THEN Val(fp[j])
             ELSE Num(fp[j].x + ((fp[j + 1].x - fp[j].x) * (x - xp[j]))
                                    \div (xp[j + 1] - xp[j]))

\* Lightcurve.nan_helper: the NaN mask (its second result is nonzero)
nan_helper(y) == [k \in Indices(y) |-> y[k].nan]


(***************************************************************************)
(* The Python object model.                                                *)
(***************************************************************************)
Instances == {1, 2}

\* the array objects: owner 0 is the class, owner i > 0 is instance i.  An
\* instance's flux arrays (clc and the snapshot ulc) live in slots p and q.
ClassSlots == {"clc", "cts", "cle", "ulc", "filterfit", "detrend_fit",
               "running_median_fit"}
OwnSlots == {"p", "q", "cts", "cle", "detrend_fit", "running_median_fit"}
Refs == {<<0, s>> : s \in ClassSlots} \cup (Instances \X OwnSlots)

\* the class body of Lightcurve: the defaults attached at class scope
ClassBody ==
    [id |-> 0,
     clc |-> <<0, "clc">>, cts |-> <<0, "cts">>, cle |-> <<0, "cle">>,
     ulc |-> <<0, "ulc">>,
     dc |-> Num(0),
     filterfit |-> <<0, "filterfit">>,
     quarter |-> <<>>,
     detrended |-> FALSE, detrend_nbins |-> 0, detrend_order |-> 0,
     detrend_fit |-> <<0, "detrend_fit">>,
     running_median_dt |-> 0,
     running_median_fit |-> <<0, "running_median_fit">>,
     datagap |-> FALSE,
     cadence |-> "AttributeError"]   \* no class attribute: a read would raise

\* a new object: no instance attribute yet (has = {})
NewInstance == [has |-> {}, val |-> ClassBody]

\* the state the methods run on, and the exception raised ("" for none)
World ==
    [klass |-> klass, inst |-> inst, heap |-> heap, log |-> log,
     ingested |-> ingested, exc |-> "", n |-> ncalls + 1]

\* self.f (read)
GetAttr(w, i, f) ==
    IF f \in w.inst[i].has THEN w.inst[i].val[f] ELSE w.klass[f]

\* self.f = v
SetAttr(w, i, f, v) ==
    [w EXCEPT !.inst[i].has = @ \cup {f}, !.inst[i].val[f] = v]

\* the array self.f refers to
Arr(w, i, f) == w.heap[GetAttr(w, i, f)]

\* self.f = <a newly created array a>, the new object placed in slot
NewArray(w, i, f, slot, a) ==
    SetAttr([w EXCEPT !.heap[<<i, slot>>] = a], i, f, <<i, slot>>)

\* the slot for a newly created flux array: the one the snapshot does not use
Fresh(w, i) == IF GetAttr(w, i, "ulc") = <<i, "p">> THEN "q" ELSE "p"

Raise(w, e) == [w EXCEPT !.exc = e]
\* w.exc # "": an exception is propagating, the rest of the call is skipped
Raised(w) == w.exc # ""
Stage(w, s) == [w EXCEPT !.log = Append(@, [call |-> w.n, stage |-> s])]

(***************************************************************************)
(* The methods of Lightcurve.                                              *)
(***************************************************************************)
\* dcoffset (254-260)
dcoffset(w, i) ==
    LET w0 == Stage(w, "dcoffset")
        clc == Arr(w0, i, "clc")
        w1 == SetAttr(w0, i, "dc", np_median(clc))
        dc == GetAttr(w1, i, "dc")
    IN  NewArray(w1, i, "clc", Fresh(w1, i),
                 [k \in Indices(clc) |-> Sub(clc[k], dc)])

\* interpolate (318-334): z is self.clc itself, written in place; np.interp
\* raises ValueError when there is no sample point to interpolate from
interpolate(w, i) ==
    LET w0 == Stage(w, "interpolate")
        ref == GetAttr(w0, i, "clc")
        z == w0.heap[ref]
        nans == nan_helper(z)
        notnans == [k \in Indices(z) |-> ~ nans[k]]
        xp == nonzero(notnans)
        fp == [m \in Indices(xp) |-> z[xp[m] + 1]]
    IN  IF Len(xp) = 0 THEN Raise(w0, "ValueError")
        ELSE SetAttr(
               [w0 EXCEPT !.heap[ref] =
                   [k \in Indices(z) |->
                       IF nans[k]
                       THEN LET v == np_interp(k - 1, xp, fp)
                            IN  [z[k] EXCEPT !.nan = v.nan, !.x = v.x]
                       ELSE z[k]]],
               i, "clc", ref)

\* bayesflare.savitzky_golay rejects a window that is not a positive odd
\* number or is too small for the polynomial order
savgol_valid(nbins, order) == nbins % 2 = 1 /\ nbins > 1 /\ nbins > order

RECURSIVE SumX(_, _, _)
SumX(y, lo, hi) == IF lo > hi THEN 0 ELSE y[lo].x + SumX(y, lo + 1, hi)

Max(a, b) == IF a > b THEN a ELSE b
Min(a, b) == IF a < b THEN a ELSE b

\* the fitted baseline, as long as y: the local fit over the window of nbins
\* samples centred on each sample (the window's mean)
savitzky_golay(y, nbins, order) ==
    [k \in Indices(y) |->
        LET lo == Max(1, k - nbins \div 2)
            hi == Min(Len(y), k + nbins \div 2)
        IN  IF \E j \in lo..hi : y[j].nan THEN NaN
            ELSE Num(SumX(y, lo, hi) \div (hi - lo + 1))]

\* clc - ffit, element by element: a fitted baseline is subtracted
SubFit(e, b) == [Sub(e, b) EXCEPT !.nfit = @ + 1]

\* detrend (356-375)
detrend(w, i, nbins, order) ==
    LET w0 == Stage(w, "detrend")
        w1 == SetAttr(SetAttr(SetAttr(w0, i, "detrend_nbins", nbins),
                              i, "detrend_order", order),
                      i, "detrended", TRUE)
        w2 == SetAttr(w1, i, "ulc", GetAttr(w1, i, "clc"))
        clc == Arr(w2, i, "clc")
    IN  IF ~ savgol_valid(nbins, order) THEN Raise(w2, "TypeError")
        ELSE LET ffit == savitzky_golay(clc, nbins, order)
                 w3 == NewArray(w2, i, "clc", Fresh(w2, i),
                                [k \in Indices(clc) |-> SubFit(clc[k], ffit[k])])
             IN  NewArray(w3, i, "detrend_fit", "detrend_fit", ffit)

\* clc[v]: the samples of clc whose time lies within dt/2 of sample k's,
\* both ends excluded
InWindow(clc, cts, k, dt) ==
    LET v == [j \in Indices(clc) |->
                 /\ 2 * cts[j] < 2 * cts[k] + dt
                 /\ 2 * cts[j] > 2 * cts[k] - dt]
        at == nonzero(v)
    IN  [m \in Indices(at) |-> clc[at[m] + 1]]

\* running_median (377-397)
running_median(w, i, dt) ==
    LET w1 == SetAttr(w, i, "running_median_dt", dt)
        clc == Arr(w1, i, "clc")
        cts == Arr(w1, i, "cts")
        ffit == [k \in Indices(clc) |-> np_median(InWindow(clc, cts, k, dt))]
        w2 == NewArray(w1, i, "running_median_fit", "running_median_fit", ffit)
        w3 == SetAttr(w2, i, "ulc", GetAttr(w2, i, "clc"))
    IN  NewArray(w3, i, "clc", Fresh(w3, i),
                 [k \in Indices(clc) |-> SubFit(clc[k], ffit[k])])


(***************************************************************************)
(* Segment files.  pyfits.open(curve) gives the header (KEPLERID, OBSMODE, *)
(* QUARTER) and the table columns PDCSAP_FLUX, TIME (days) and             *)
(* PDCSAP_FLUX_ERR of one file, or fails with IOError.  A file's table has *)
(* at least one row.  Files may cover the same times (the same file can be *)
(* added twice): TIME counts days from the start of the file.              *)
(***************************************************************************)
KeplerIds == {1, 2}
ObsModes == {"long cadence", "short cadence"}
Quarters == {1}
SegLens == {1, 2}
FluxVals == {NaN, Num(6)}
FluxArrays == UNION {[1..n -> FluxVals] : n \in SegLens}

Fits(kid, mode, q, flux) ==
    [kind |-> "fits", KEPLERID |-> kid, OBSMODE |-> mode, QUARTER |-> q,
     PDCSAP_FLUX |-> flux,
     TIME |-> [j \in Indices(flux) |-> j - 1],
     PDCSAP_FLUX_ERR |-> [j \in Indices(flux) |-> j]]

\* add_data(None), and a path pyfits cannot open
NoCurve == [Fits(0, "", 0, <<>>) EXCEPT !.kind = "None"]
Unreadable == [Fits(0, "", 0, <<>>) EXCEPT !.kind = "unreadable"]

Curves ==
    {NoCurve, Unreadable} \cup
    {Fits(kid, mode, q, flux) :
        kid \in KeplerIds, mode \in ObsModes, q \in Quarters, flux \in FluxArrays}

\* the files of one cadence mode
LongCurves == {c \in Curves : c.OBSMODE # "short cadence"}

\* (nbins, order) of a detrend: a valid window, an even one, one not above
\* the order
WindowArgs == {<<3, 1>>, <<2, 1>>, <<3, 3>>}
\* maxgap of a gap_checker call
MaxGaps == {0, 1, 2}
\* dt of a running median, in seconds
Windows == {86400, 4 * 86400}

(***************************************************************************)
(* add_data (191-252).                                                     *)
(***************************************************************************)
\* 227-230 with the check left out
check_id_unchecked(w, i, curve) == SetAttr(w, i, "id", curve.KEPLERID)

\* 227-230: the first segment sets the id, a later one must agree with it
check_id(w, i, curve) ==
    IF Len(Arr(w, i, "clc")) = 0 THEN SetAttr(w, i, "id", curve.KEPLERID)
    ELSE IF curve.KEPLERID # GetAttr(w, i, "id") THEN Raise(w, "NameError")
    ELSE w

\* 232-237
set_header(w, i, curve) ==
    LET w1 == SetAttr(w, i, "cadence",
                      IF curve.OBSMODE = "long cadence" THEN "long" ELSE "short")
    IN  SetAttr(w1, i, "quarter",
                GetAttr(w1, i, "quarter") \o <<curve.QUARTER>>)

\* the samples of the segment, tagged as the next segment of object i
Tagged(w, i, curve) ==
    [j \in Indices(curve.PDCSAP_FLUX) |->
        Sample(curve.PDCSAP_FLUX[j], Len(w.ingested[i]) + 1, j)]

\* 240-242 as an in-place extension of whatever object the attribute holds
append_segment_inplace(w, i, curve) ==
    LET w0 == Stage(w, "append")
        rclc == GetAttr(w0, i, "clc")
        rcts == GetAttr(w0, i, "cts")
        rcle == GetAttr(w0, i, "cle")
    IN  [w0 EXCEPT
            !.heap[rclc] = np_append(@, Tagged(w0, i, curve)),
            !.heap[rcts] = np_append(@,
                [j \in Indices(curve.TIME) |-> curve.TIME[j] * 24 * 3600]),
            !.heap[rcle] = np_append(@, curve.PDCSAP_FLUX_ERR),
            !.ingested[i] = Append(@, curve)]

\* 240-242: each buffer array is rebound to a new array, old then new
append_segment(w, i, curve) ==
    LET w0 == Stage(w, "append")
        w1 == NewArray(w0, i, "clc", Fresh(w0, i),
                       np_append(Arr(w0, i, "clc"), Tagged(w0, i, curve)))
        w2 == NewArray(w1, i, "cts", "cts",
                       np_append(Arr(w1, i, "cts"),
                           [j \in Indices(curve.TIME) |-> curve.TIME[j] * 24 * 3600]))
        w3 == NewArray(w2, i, "cle", "cle",
                       np_append(Arr(w2, i, "cle"), curve.PDCSAP_FLUX_ERR))
    IN  [w3 EXCEPT !.ingested[i] = Append(@, curve)]

\* 245
check_gaps(w, i, maxgap) ==
    SetAttr(Stage(w, "gap_check"), i, "datagap",
            gap_checker(Arr(w, i, "clc"), maxgap))

\* 245-250 with the offset removed before the interpolation
pipeline_offset_first(w, i, detrend_, nbins, order, maxgap) ==
    LET w1 == check_gaps(w, i, maxgap)
        w2 == dcoffset(w1, i)
        w3 == IF Raised(w2) THEN w2 ELSE interpolate(w2, i)
    IN  IF detrend_ /\ ~ Raised(w3) THEN detrend(w3, i, nbins, order) ELSE w3

\* 245-250: gap check, interpolate, remove the offset, detrend if asked
pipeline(w, i, detrend_, nbins, order, maxgap) ==
    LET w1 == check_gaps(w, i, maxgap)
        w2 == interpolate(w1, i)
        w3 == IF Raised(w2) THEN w2 ELSE dcoffset(w2, i)
    IN  IF detrend_ /\ ~ Raised(w3) THEN detrend(w3, i, nbins, order) ELSE w3

add_data(w, i, curve, detrend_, nbins, order, maxgap) ==
    IF curve.kind = "None" THEN Raise(w, "NameError")
    ELSE IF curve.kind = "unreadable" THEN Raise(w, "NameError")
    ELSE LET w1 == check_id(w, i, curve)
         IN  IF Raised(w1) THEN w1
             ELSE pipeline(append_segment(set_header(w1, i, curve), i, curve),
                           i, detrend_, nbins, order, maxgap)

(***************************************************************************)
(* The state machine: one action per public method called on an object.    *)
(***************************************************************************)
NoCall == [op |-> "", self |-> 0, exc |-> "", kid |-> 0, detrend |-> FALSE,
           maxgap |-> 0, ret |-> FALSE]

Commit(w, c) ==
    /\ klass' = w.klass
    /\ inst' = w.inst
    /\ heap' = w.heap
    /\ log' = w.log
    /\ ingested' = w.ingested
    /\ ncalls' = ncalls + 1
    /\ call' = [c EXCEPT !.exc = w.exc]
    /\ hist' = Append(hist, [op |-> c.op, detrend |-> c.detrend, exc |-> w.exc])

Init ==
    /\ klass = ClassBody
    /\ inst = [i \in Instances |-> NewInstance]
    /\ heap = [r \in Refs |-> <<>>]
    /\ call = NoCall
    /\ log = <<>>
    /\ ingested = [i \in Instances |-> <<>>]
    /\ hist = <<>>
    /\ ncalls = 0

\* add_data(curve) and add_data(curve, True, nbins, order), curve among
\* files; nbins, order and maxgap have the defaults 101, 3 and 1
AddData(i, files) ==
    /\ ncalls < MaxCalls
    /\ \E curve \in files :
          \/ Commit(add_data(World, i, curve, FALSE, 101, 3, 1),
                    [NoCall EXCEPT !.op = "add_data", !.self = i,
                                   !.kid = curve.KEPLERID])
          \/ \E a \in WindowArgs :
                Commit(add_data(World, i, curve, TRUE, a[1], a[2], 1),
                       [NoCall EXCEPT !.op = "add_data", !.self = i,
                                      !.kid = curve.KEPLERID, !.detrend = TRUE])

Interpolate(i) ==
    /\ ncalls < MaxCalls
    /\ Commit(interpolate(World, i),
              [NoCall EXCEPT !.op = "interpolate", !.self = i])

DcOffset(i) ==
    /\ ncalls < MaxCalls
    /\ Commit(dcoffset(World, i), [NoCall EXCEPT !.op = "dcoffset", !.self = i])

Detrend(i) ==
    /\ ncalls < MaxCalls
    /\ \E a \in WindowArgs :
          Commit(detrend(World, i, a[1], a[2]),
                 [NoCall EXCEPT !.op = "detrend", !.self = i, !.detrend = TRUE])

RunningMedian(i) ==
    /\ ncalls < MaxCalls
    /\ \E dt \in Windows :
          Commit(running_median(World, i, dt),
                 [NoCall EXCEPT !.op = "running_median", !.self = i])

GapChecker(i) ==
    /\ ncalls < MaxCalls
    /\ \E maxgap \in MaxGaps :
          Commit(World,
                 [NoCall EXCEPT !.op = "gap_checker", !.self = i,
                                !.maxgap = maxgap,
                                !.ret = gap_checker(Arr(World, i, "clc"), maxgap)])

\* one Lightcurve object and its calls
Next ==
    \/ AddData(1, Curves)
    \/ Interpolate(1)
    \/ DcOffset(1)
    \/ Detrend(1)
    \/ RunningMedian(1)

Spec == Init /\ [][Next]_vars

\* two Lightcurve objects, the calls on them in any order
NextShared ==
    \E i \in Instances :
        \/ AddData(i, LongCurves)
        \/ Interpolate(i)
        \/ DcOffset(i)
        \/ Detrend(i)
        \/ RunningMedian(i)

SpecShared == Init /\ [][NextShared]_vars

(***************************************************************************)
(* The array methods on their own: object 1 starts with a buffer that was  *)
(* assigned to its (public) attributes, of any content up to MaxArrLen     *)
(* samples, and interpolate and gap_checker are called on it.              *)
(***************************************************************************)
ArrVals == {NaN, Num(0), Num(6)}
Arrays == UNION {[1..n -> ArrVals] : n \in 0..MaxArrLen}

InitArrays ==
    /\ klass = ClassBody
    /\ \E a \in Arrays :
          /\ inst = [i \in Instances |->
                       IF i = 1
                       THEN [has |-> {"clc", "cts", "cle"},
                             val |-> [ClassBody EXCEPT !.clc = <<1, "p">>,
                                                       !.cts = <<1, "cts">>,
                                                       !.cle = <<1, "cle">>]]
                       ELSE NewInstance]
          /\ heap = [r \in Refs |->
                       IF r = <<1, "p">>
                       THEN [k \in Indices(a) |-> Sample(a[k], 0, k)]
                       ELSE IF r = <<1, "cts">>
                       THEN [k \in Indices(a) |-> (k - 1) * 24 * 3600]
                       ELSE IF r = <<1, "cle">>
                       THEN [k \in Indices(a) |-> 1]
                       ELSE <<>>]
    /\ call = NoCall
    /\ log = <<>>
    /\ ingested = [i \in Instances |-> <<>>]
    /\ hist = <<>>
    /\ ncalls = 0

NextArrays == Interpolate(1) \/ GapChecker(1)

SpecArrays == InitArrays /\ [][NextArrays]_vars


(***************************************************************************)
(* What a caller observes of object i.                                     *)
(***************************************************************************)
Read(i, f) == GetAttr(World, i, f)
Buf(i, f) == Arr(World, i, f)

\* every field of object i, arrays by content
Fields(i) ==
    [id |-> Read(i, "id"), cadence |-> Read(i, "cadence"),
     quarter |-> Read(i, "quarter"),
     clc |-> Buf(i, "clc"), cts |-> Buf(i, "cts"), cle |-> Buf(i, "cle"),
     ulc |-> Buf(i, "ulc"), dc |-> Read(i, "dc"),
     datagap |-> Read(i, "datagap"), detrended |-> Read(i, "detrended"),
     detrend_nbins |-> Read(i, "detrend_nbins"),
     detrend_order |-> Read(i, "detrend_order"),
     detrend_fit |-> Buf(i, "detrend_fit"),
     running_median_dt |-> Read(i, "running_median_dt"),
     running_median_fit |-> Buf(i, "running_median_fit")]

\* the fields an identity mismatch must leave alone
Ingest(i) ==
    <<Buf(i, "clc"), Buf(i, "cts"), Buf(i, "cle"), Read(i, "id"),
      Read(i, "cadence"), Read(i, "quarter"), Read(i, "dc"), Read(i, "datagap")>>

\* the stages logged by call n, in order
StagesOf(n) ==
    LET mine == SelectSeq(log, LAMBDA e : e.call = n)
    IN  [k \in Indices(mine) |-> mine[k].stage]

StageOrder == <<"append", "gap_check", "interpolate", "dcoffset", "detrend">>

IsPrefix(s, t) == Len(s) <= Len(t) /\ \A k \in Indices(s) : s[k] = t[k]

\* the number of samples appended to object i before its segment s
RECURSIVE Before(_, _)
Before(i, s) ==
    IF s = 1 THEN 0
    ELSE Before(i, s - 1) + Len(ingested[i][s - 1].PDCSAP_FLUX)

\* d holds a run of consecutive NaN samples longer than maxgap
HasGap(d, maxgap) ==
    \E a \in Indices(d), b \in Indices(d) :
        /\ b - a + 1 > maxgap
        /\ \A k \in a..b : d[k].nan

C2_AllOrNothing ==
    [][\A i \in Instances :
          (call'.self = i /\ call'.exc # "") => Fields(i)' = Fields(i)]_vars

(***************************************************************************)
(* C3. The buffer is the segments appended, in the order of the calls:     *)
(* clc, cts and cle are as long as the segments together; the sample at    *)
(* position |A|+j comes from sample j of B, its time is B's TIME[j] in     *)
(* seconds and its error B's PDCSAP_FLUX_ERR[j]; nothing is reordered or   *)
(* dropped.                                                                *)
(***************************************************************************)
C3_AppendInOrder ==
    \A i \in Instances :
        LET segs == ingested[i]
            total == IF Len(segs) = 0 THEN 0
                     ELSE Before(i, Len(segs)) + Len(segs[Len(segs)].PDCSAP_FLUX)
        IN  /\ Len(Buf(i, "clc")) = total
            /\ Len(Buf(i, "cts")) = total
            /\ Len(Buf(i, "cle")) = total
            /\ \A s \in Indices(segs) :
                  \A j \in Indices(segs[s].PDCSAP_FLUX) :
                      LET k == Before(i, s) + j
                      IN  /\ Buf(i, "clc")[k].seg = s
                          /\ Buf(i, "clc")[k].idx = j
                          /\ Buf(i, "cts")[k] = segs[s].TIME[j] * 86400
                          /\ Buf(i, "cle")[k] = segs[s].PDCSAP_FLUX_ERR[j]

\* two valid segments of different lengths, both added with success; the
\* times of the second start before the end of the first
C3_Witness ==
    /\ Len(hist) = 2
    /\ \A k \in Indices(hist) : hist[k].op = "add_data" /\ hist[k].exc = ""
    /\ Len(ingested[1]) = 2
    /\ Len(ingested[1][1].PDCSAP_FLUX) = 2
    /\ Len(ingested[1][2].PDCSAP_FLUX) = 1
    /\ Buf(1, "cts") = <<0, 86400, 0>>

(***************************************************************************)
(* C4. gap_checker(d, maxgap) is True exactly when d holds a run of        *)
(* consecutive NaN samples longer than maxgap.                             *)
(***************************************************************************)
C4_GapCheckerExact ==
    call.op = "gap_checker"
        => (call.ret <=> HasGap(Buf(call.self, "clc"), call.maxgap))

(***************************************************************************)
(* C5. On a buffer with at least one non-missing sample, interpolate       *)
(* succeeds, leaves no NaN, keeps the length, and leaves every sample that *)
(* was not NaN exactly as it was.                                          *)
(***************************************************************************)
C5_InterpolateFills ==
    [][\A i \in Instances :
          (/\ call'.op = "interpolate" /\ call'.self = i
           /\ \E k \in Indices(Buf(i, "clc")) : ~ Buf(i, "clc")[k].nan)
          => (/\ call'.exc = ""
              /\ Len(Buf(i, "clc")') = Len(Buf(i, "clc"))
              /\ \A k \in Indices(Buf(i, "clc")) :
                    /\ ~ Buf(i, "clc")'[k].nan
                    /\ ~ Buf(i, "clc")[k].nan
                          => Buf(i, "clc")'[k] = Buf(i, "clc")[k])]_vars

\* a sample between 0 and 6 was filled with their midpoint
C5_Witness ==
    /\ call.op = "interpolate" /\ call.exc = ""
    /\ \E k \in Indices(Buf(1, "clc")) : Buf(1, "clc")[k].x = 3

(***************************************************************************)
(* C6. After successful add_data calls, every segment with samples in the  *)
(* buffer has the cadence mode of the Lightcurve's cadence field.          *)
(***************************************************************************)
C6_CadenceConsistent ==
    (\A k \in Indices(hist) : hist[k].op = "add_data" /\ hist[k].exc = "")
    => \A i \in Instances :
          \A k \in Indices(Buf(i, "clc")) :
              LET seg == ingested[i][Buf(i, "clc")[k].seg]
              IN  Read(i, "cadence") =
                      (IF seg.OBSMODE = "long cadence" THEN "long" ELSE "short")

(***************************************************************************)
(* C7. A call on one Lightcurve changes no field read through another one. *)
(***************************************************************************)
C7_InstancesIsolated ==
    [][\A j \in Instances :
          j # call'.self => Fields(j)' = Fields(j)]_vars

\* both objects hold data of their own, the last call was on object 1
C7_Witness ==
    /\ call.self = 1 /\ call.op = "add_data" /\ call.exc = ""
    /\ Len(Buf(1, "clc")) > 0
    /\ Len(Buf(2, "clc")) > 0
    /\ Read(1, "id") # Read(2, "id")

(***************************************************************************)
(* C8. The stages of an add_data call run in the order append, gap check,  *)
(* interpolate, offset removal, detrend, each at most once, detrend only   *)
(* when asked; a call that succeeds ran them all; the stages of one call   *)
(* are not interleaved with those of another.                              *)
(***************************************************************************)
C8_StageOrder ==
    /\ \A k \in Indices(log) : k > 1 => log[k - 1].call <= log[k].call
    /\ call.op = "add_data" =>
          LET st == StagesOf(ncalls)
          IN  /\ IsPrefix(st, StageOrder)
              /\ ~ call.detrend => Len(st) <= 4
              /\ call.exc = "" => Len(st) = (IF call.detrend THEN 5 ELSE 4)

C8_Witness ==
    /\ call.op = "add_data" /\ call.exc = "" /\ call.detrend
    /\ StagesOf(ncalls) = StageOrder
    /\ ncalls = 2 /\ Len(StagesOf(1)) = 4

(***************************************************************************)
(* C9. After every detrend or running_median, ulc is the offset-corrected  *)
(* flux of the whole buffer with no fitted baseline subtracted from any    *)
(* sample.                                                                 *)
(***************************************************************************)
C9_SnapshotUndetrended ==
    (/\ call.exc = ""
     /\ \/ call.op \in {"detrend", "running_median"}
        \/ call.op = "add_data" /\ call.detrend)
    => /\ Len(Buf(call.self, "ulc")) = Len(Buf(call.self, "clc"))
       /\ \A k \in Indices(Buf(call.self, "ulc")) :
              Buf(call.self, "ulc")[k].nfit = 0

(***************************************************************************)
(* C10. After successful add_data calls with detrend=False, dc is the one  *)
(* constant removed from every sample: clc[k] + dc is the original flux of *)
(* sample k, whichever segment it came from.                               *)
(***************************************************************************)
C10_SingleOffset ==
    (\A k \in Indices(hist) :
        hist[k].op = "add_data" /\ hist[k].exc = "" /\ ~ hist[k].detrend)
    => \A i \in Instances :
          \A k \in Indices(Buf(i, "clc")) :
              LET e == Buf(i, "clc")[k]
                  raw == ingested[i][e.seg].PDCSAP_FLUX[e.idx]
              IN  ~ raw.nan => e.x + Read(i, "dc").x = raw.x

====
